---------------------------- MODULE Spec2Model ----------------------------
(*************************************************************************)
(* GradeGraph: the subject/column inference engine.                      *)
(*                                                                       *)
(*   src/app.py               _is_practical_col, _get_max_marks_for_subject, *)
(*                            _row_percentage                            *)
(*   src/services/subjects.py get_subject_list, get_subject_exam_types,  *)
(*                            get_subject_marks, get_subject_marks_summary *)
(*                                                                       *)
(* A Python str is modelled as a sequence of one-character strings, so   *)
(* that upper(), split(), strip(), replace(), title(), `in` and the      *)
(* regular expression \bPR\b are computed character by character.        *)
(*************************************************************************)
EXTENDS Integers, Sequences, FiniteSets, TLC

(*************************************************************************)
(* Characters.  ord gives the code point: str comparison (sorted) is by  *)
(* code point, and upper()/lower() differ by 32 on ASCII letters.        *)
(*************************************************************************)
UpperLetters ==
    <<"A", "B", "C", "D", "E", "F", "G", "H", "I", "J", "K", "L", "M",
      "N", "O", "P", "Q", "R", "S", "T", "U", "V", "W", "X", "Y", "Z">>

LowerLetters ==
    <<"a", "b", "c", "d", "e", "f", "g", "h", "i", "j", "k", "l", "m",
      "n", "o", "p", "q", "r", "s", "t", "u", "v", "w", "x", "y", "z">>

Digits ==
    <<"0", "1", "2", "3", "4", "5", "6", "7", "8", "9">>

Range(s) ==
    {s[i] : i \in DOMAIN s}

IndexOf(s, c) ==
    CHOOSE i \in DOMAIN s : s[i] = c

Chars ==
    Range(UpperLetters) \cup Range(LowerLetters) \cup Range(Digits)
        \cup {" ", "_", ".", "%"}

ord ==
    [c \in Chars |->
        IF c \in Range(UpperLetters) THEN 64 + IndexOf(UpperLetters, c)
        ELSE IF c \in Range(LowerLetters) THEN 96 + IndexOf(LowerLetters, c)
        ELSE IF c \in Range(Digits) THEN 47 + IndexOf(Digits, c)
        ELSE IF c = " " THEN 32
        ELSE IF c = "%" THEN 37
        ELSE IF c = "." THEN 46
        ELSE 95]

chr ==
    [n \in {ord[c] : c \in Chars} |-> CHOOSE c \in Chars : ord[c] = n]

isupper(c) ==
    ord[c] >= 65 /\ ord[c] <= 90

islower(c) ==
    ord[c] >= 97 /\ ord[c] <= 122

isalpha(c) ==
    isupper(c) \/ islower(c)

isspace(c) ==
    c = " "

\* \w of the re module: letters, digits and the underscore.
isword(c) ==
    isalpha(c) \/ (ord[c] >= 48 /\ ord[c] <= 57) \/ c = "_"

upper_char ==
    [c \in Chars |-> IF islower(c) THEN chr[ord[c] - 32] ELSE c]

lower_char ==
    [c \in Chars |-> IF isupper(c) THEN chr[ord[c] + 32] ELSE c]

(*************************************************************************)
(* str methods.                                                          *)
(*************************************************************************)
upper(s) ==
    [i \in 1..Len(s) |-> upper_char[s[i]]]

\* sub in s
contains(s, sub) ==
    \E i \in 1..(Len(s) - Len(sub) + 1) : SubSeq(s, i, i + Len(sub) - 1) = sub

RECURSIVE find_from(_, _, _)
\* s.find(sub, i-1) + 1: the first position >= i at which sub occurs, 0 if none.
find_from(s, sub, i) ==
    IF i + Len(sub) - 1 > Len(s) THEN 0
    ELSE IF SubSeq(s, i, i + Len(sub) - 1) = sub THEN i
    ELSE find_from(s, sub, i + 1)

\* s.split(sep)[0]: the text before the first occurrence of sep (all of s if none).
split_first(s, sep) ==
    LET at == find_from(s, sep, 1)
    IN  IF at = 0 THEN s ELSE SubSeq(s, 1, at - 1)

RECURSIVE lstrip(_)
lstrip(s) ==
    IF s # <<>> /\ isspace(Head(s)) THEN lstrip(Tail(s)) ELSE s

RECURSIVE rstrip(_)
rstrip(s) ==
    IF s # <<>> /\ isspace(s[Len(s)]) THEN rstrip(SubSeq(s, 1, Len(s) - 1)) ELSE s

strip(s) ==
    rstrip(lstrip(s))

\* s.replace(old, new) for one-character old and new.
replace(s, old, new) ==
    [i \in 1..Len(s) |-> IF s[i] = old THEN new ELSE s[i]]

\* s.title(): a cased character is upper-cased when the character before it is
\* not cased (or it is the first), lower-cased otherwise.
title(s) ==
    [i \in 1..Len(s) |->
        IF ~isalpha(s[i]) THEN s[i]
        ELSE IF i > 1 /\ isalpha(s[i - 1]) THEN lower_char[s[i]]
        ELSE upper_char[s[i]]]

RECURSIVE str_less(_, _)
\* a < b on str: lexicographic by code point, a proper prefix first.
str_less(a, b) ==
    IF b = <<>> THEN FALSE
    ELSE IF a = <<>> THEN TRUE
    ELSE IF ord[Head(a)] # ord[Head(b)] THEN ord[Head(a)] < ord[Head(b)]
    ELSE str_less(Tail(a), Tail(b))

\* re.search(r'\bPR\b', s) is not None
re_search_word_PR(s) ==
    \E i \in 1..(Len(s) - 1) :
        /\ s[i] = "P" /\ s[i + 1] = "R"
        /\ (i = 1 \/ ~isword(s[i - 1]))
        /\ (i + 1 = Len(s) \/ ~isword(s[i + 2]))

(*************************************************************************)
(* Literals.                                                             *)
(*************************************************************************)
ISE == <<"I", "S", "E">>
MSE == <<"M", "S", "E">>
ESE == <<"E", "S", "E">>
PRACTICAL == <<"P", "R", "A", "C", "T", "I", "C", "A", "L">>
TW == <<"T", "W">>
PR == <<"P", "R">>

\* None and NaN: values that are no str (a tuple holding one long string is
\* equal to no sequence of characters).
None == <<"<None>">>
NaN == <<"<NaN>">>

(*************************************************************************)
(* src/app.py: the practical-column predicate and the max-marks lookup.  *)
(*************************************************************************)
\* The predicate with TW counted among the practical markers.
is_practical_col_tw_as_practical(col_name) ==
    IF col_name \in {None, NaN, <<>>} THEN FALSE
    ELSE LET col_upper == upper(col_name)
         IN  contains(col_upper, PRACTICAL) \/ contains(col_upper, TW)
                \/ re_search_word_PR(col_upper)

_is_practical_col(col_name) ==
    IF col_name \in {None, NaN, <<>>} THEN FALSE
    ELSE LET col_upper == upper(col_name)
         IN  IF contains(col_upper, TW) /\ ~contains(col_upper, PR) THEN FALSE
             ELSE contains(col_upper, PRACTICAL) \/ re_search_word_PR(col_upper)

\* The lookup with the TW branch returning the practical maximum.
get_max_marks_tw_as_practical(subject_name, exam_type) ==
    IF exam_type \in {None, <<>>} THEN 100
    ELSE LET exam_upper == upper(exam_type)
         IN  IF contains(exam_upper, ESE) THEN 60
             ELSE IF contains(exam_upper, ISE) \/ contains(exam_upper, MSE) THEN 25
             ELSE IF contains(exam_upper, PRACTICAL) \/ contains(exam_upper, PR)
                        \/ contains(exam_upper, TW) THEN 25
             ELSE 100

_get_max_marks_for_subject(subject_name, exam_type) ==
    IF exam_type \in {None, <<>>} THEN 100
    ELSE LET exam_upper == upper(exam_type)
         IN  IF contains(exam_upper, ESE) THEN 60
             ELSE IF contains(exam_upper, ISE) \/ contains(exam_upper, MSE) THEN 25
             ELSE IF contains(exam_upper, PRACTICAL) \/ contains(exam_upper, PR) THEN 25
             ELSE IF contains(exam_upper, TW) THEN 50
             ELSE 100

(*************************************************************************)
(* src/services/subjects.py: get_subject_list.                           *)
(*************************************************************************)
\* No column left out.
exclude_cols_none ==
    {}

exclude_cols ==
    { <<"S", "R", ".", "N", "o">>,
      <<"R", "o", "l", "l", " ", "N", "o">>,
      <<"N", "a", "m", "e">>,
      <<"A", "c", "a", "d", "e", "m", "i", "c", "_", "P", "e", "r", "f", "o", "r",
        "m", "a", "n", "c", "e", "_", "%">>,
      <<"P", "r", "e", "v", "i", "o", "u", "s", "_", "P", "e", "r", "f", "o", "r",
        "m", "a", "n", "c", "e", "_", "A", "n", "a", "l", "y", "s", "i", "s">>,
      <<"P", "r", "a", "c", "t", "i", "c", "a", "l", "_", "%">>,
      <<"C", "o", "d", "i", "n", "g", "_", "E", "x", "p", "e", "r", "t", "i", "s", "e">>,
      <<"P", "e", "r", "f", "o", "r", "m", "a", "n", "c", "e", "_", "A", "n", "a",
        "l", "y", "s", "i", "s">>,
      <<"C", "a", "t", "e", "g", "o", "r", "y">> }

\* The marker list in the order ESE, ISE, MSE, PRACTICAL, TW, PR.
assessments_ese_first ==
    <<ESE, ISE, MSE, PRACTICAL, TW, PR>>

\* The list the inner loop walks, in its order.
assessments ==
    <<ISE, MSE, ESE, PRACTICAL, TW, PR>>

\* What one column adds to the set, for a column no marker is found in.
NoMatch ==
    [assessment |-> None, candidate |-> None, adds |-> {}]

\* The rest of the loop body once `assessment` is found in the header:
\* split, take parts[0], strip, and when non-empty replace and title.
split_on(col_upper, assessment) ==
    LET parts0 == split_first(col_upper, assessment)
        subject_name == strip(parts0)
    IN  [assessment |-> assessment,
         candidate |-> parts0,
         adds |-> IF subject_name # <<>>
                  THEN {title(replace(subject_name, "_", " "))}
                  ELSE {}]

RECURSIVE classify_retrying(_, _)
\* The inner loop with the break taken only when a subject was added.
classify_retrying(col, k) ==
    IF k > Len(assessments) THEN NoMatch
    ELSE IF contains(upper(col), assessments[k])
              /\ split_on(upper(col), assessments[k]).adds # {}
         THEN split_on(upper(col), assessments[k])
         ELSE classify_retrying(col, k + 1)

RECURSIVE classify_from(_, _)
\* The inner loop from the k-th marker on: the first marker the uppercased header
\* contains decides, and the break ends the loop whether or not a subject was added.
classify_from(col, k) ==
    IF k > Len(assessments) THEN NoMatch
    ELSE IF contains(upper(col), assessments[k])
         THEN split_on(upper(col), assessments[k])
         ELSE classify_from(col, k + 1)

\* The inner loop of get_subject_list for one column.
classify(col) ==
    classify_from(col, 1)

RECURSIVE collect_subjects(_, _)
\* The outer loop: the set `subjects` after the columns subject_cols, started
\* from the set acc.
collect_subjects(subject_cols, acc) ==
    IF subject_cols = <<>> THEN acc
    ELSE collect_subjects(Tail(subject_cols), acc \cup classify(Head(subject_cols)).adds)

RECURSIVE insert_sorted_descending(_, _)
\* The insertion of a descending sort.
insert_sorted_descending(x, l) ==
    IF l = <<>> THEN <<x>>
    ELSE IF str_less(Head(l), x) THEN <<x>> \o l
    ELSE <<Head(l)>> \o insert_sorted_descending(x, Tail(l))

RECURSIVE insert_sorted(_, _)
\* x put into the ascending list l, after the elements not greater than it.
insert_sorted(x, l) ==
    IF l = <<>> THEN <<x>>
    ELSE IF str_less(x, Head(l)) THEN <<x>> \o l
    ELSE <<Head(l)>> \o insert_sorted(x, Tail(l))

\* The list returned as it is, unsorted.
sorted_identity(l) ==
    l

RECURSIVE sorted(_)
\* sorted(l) on a list of str: ascending, equal elements kept.
sorted(l) ==
    IF l = <<>> THEN <<>>
    ELSE insert_sorted(l[Len(l)], sorted(SubSeq(l, 1, Len(l) - 1)))

\* list(s) for a set s: its elements once each, in an order the language does
\* not fix (it depends on the hash seed).
list_of_set(s) ==
    {l \in [1..Cardinality(s) -> s] : \A i, j \in DOMAIN l : i # j => l[i] # l[j]}

\* The columns that are not excluded, in table order.
subject_cols_of(df_columns) ==
    SelectSeq(df_columns, LAMBDA col : col \notin exclude_cols)

\* get_subject_list(df): the lists it can return for a table with these columns.
get_subject_list(df_columns) ==
    LET subjects == collect_subjects(subject_cols_of(df_columns), {})
    IN  {sorted(l) : l \in list_of_set(subjects)}

(*************************************************************************)
(* src/services/subjects.py: get_subject_exam_types.                     *)
(*************************************************************************)
\* The if/elif chain on one uppercased header: the type it adds, if any.
exam_type_of(col_upper) ==
    IF contains(col_upper, ESE) THEN {ESE}
    ELSE IF contains(col_upper, ISE) THEN {ISE}
    ELSE IF contains(col_upper, MSE) THEN {MSE}
    ELSE IF contains(col_upper, PRACTICAL) \/ contains(col_upper, PR) THEN {PRACTICAL}
    ELSE IF contains(col_upper, TW) THEN {TW}
    ELSE {}

RECURSIVE collect_exam_types(_, _, _)
collect_exam_types(df_columns, subject_name, acc) ==
    IF df_columns = <<>> THEN acc
    ELSE LET col_upper == upper(Head(df_columns))
             subject_upper == upper(subject_name)
         IN  collect_exam_types(Tail(df_columns), subject_name,
                 IF contains(col_upper, subject_upper)
                 THEN acc \cup exam_type_of(col_upper)
                 ELSE acc)

\* get_subject_exam_types(df, subject_name): the lists it can return.
get_subject_exam_types(df_columns, subject_name) ==
    LET exam_types == collect_exam_types(df_columns, subject_name, {})
    IN  {sorted(l) : l \in list_of_set(exam_types)}

(*************************************************************************)
(* Values of the marks operations.  A number is Float(n) with n an       *)
(* integer, the float nan is np_nan, a cell holding text is Str(s); the   *)
(* quotient a / b of two numbers is kept exact as Quotient(a, b).        *)
(*************************************************************************)
Float(n) ==
    [float |-> n]

np_nan ==
    [nan |-> TRUE]

Str(s) ==
    [str |-> s]

\* What get_subject_marks and get_subject_marks_summary return for no data.
ReturnNone ==
    [none |-> TRUE]

\* A list returned to the caller.
List(l) ==
    [list |-> l]

\* An exception leaving the operation.
ValueError ==
    [raises |-> "ValueError"]

Quotient(a, b) ==
    [num |-> a, den |-> b]

\* pd.notna on a scalar.
pd_notna(x) ==
    x # np_nan

RECURSIVE digits_value(_, _)
\* The number a run of decimal digits writes, after the digits read as acc.
digits_value(s, acc) ==
    IF s = <<>> THEN acc
    ELSE digits_value(Tail(s), 10 * acc + (IndexOf(Digits, Head(s)) - 1))

\* float(x): a number is itself; a text is stripped and read, "nan" in any case
\* giving nan, a run of digits its value, and any other text raising ValueError.
float(x) ==
    IF x = np_nan THEN np_nan
    ELSE IF DOMAIN x = {"float"} THEN x
    ELSE LET s == strip(x.str)
         IN  IF [i \in 1..Len(s) |-> lower_char[s[i]]] = <<"n", "a", "n">> THEN np_nan
             ELSE IF s # <<>> /\ \A i \in 1..Len(s) : s[i] \in Range(Digits)
                  THEN Float(digits_value(s, 0))
                  ELSE ValueError

\* a + b on floats: nan is absorbing.
add(a, b) ==
    IF a = np_nan \/ b = np_nan THEN np_nan ELSE Float(a.float + b.float)

(*************************************************************************)
(* src/services/subjects.py: get_subject_marks.                          *)
(*************************************************************************)
\* The first loop: the columns whose uppercased header contains the uppercased
\* subject name and MSE or ESE, in table order.
select_subject_cols(df_columns, subject_name) ==
    SelectSeq(df_columns,
              LAMBDA col : /\ contains(upper(col), upper(subject_name))
                           /\ (contains(upper(col), MSE) \/ contains(upper(col), ESE)))

\* row[col]: the cell of the row under the column labelled col.
row_at(df_columns, row, col) ==
    row[CHOOSE k \in DOMAIN df_columns : df_columns[k] = col]

\* The right-hand side of `marks = ...`: float(row[col]) if pd.notna(row[col])
\* else 0; ValueError when float raises.
marks_of(cell) ==
    IF pd_notna(cell) THEN float(cell) ELSE Float(0)

RECURSIVE row_total_first_col_only(_, _, _, _)
\* The inner loop leaving at the first column.
row_total_first_col_only(df_columns, row, subject_cols, total_marks) ==
    IF subject_cols = <<>> THEN total_marks
    ELSE LET marks == marks_of(row_at(df_columns, row, Head(subject_cols)))
         IN  IF marks = ValueError THEN total_marks ELSE add(total_marks, marks)

RECURSIVE row_total(_, _, _, _)
\* The inner loop over subject_cols for one row, from the running total_marks:
\* a cell whose float() raises is skipped by `continue`.
row_total(df_columns, row, subject_cols, total_marks) ==
    IF subject_cols = <<>> THEN total_marks
    ELSE LET marks == marks_of(row_at(df_columns, row, Head(subject_cols)))
         IN  row_total(df_columns, row, Tail(subject_cols),
                       IF marks = ValueError THEN total_marks
                       ELSE add(total_marks, marks))

\* No column found returning a list of zeros, one per row.
get_subject_marks_zero_filled(df_columns, rows, subject_name) ==
    LET subject_cols == select_subject_cols(df_columns, subject_name)
    IN  List([i \in 1..Len(rows) |->
                 row_total(df_columns, rows[i], subject_cols, Float(0))])

\* get_subject_marks(df, subject_name), df given by its columns and rows.
get_subject_marks(df_columns, rows, subject_name) ==
    LET subject_cols == select_subject_cols(df_columns, subject_name)
    IN  IF subject_cols = <<>> THEN ReturnNone
        ELSE List([i \in 1..Len(rows) |->
                      row_total(df_columns, rows[i], subject_cols, Float(0))])

\* The rows of df were the loop to write each mark back into its cell.
rows_after_marks_written_back(df_columns, rows, subject_name) ==
    LET subject_cols == select_subject_cols(df_columns, subject_name)
    IN  [i \in 1..Len(rows) |->
            [k \in 1..Len(df_columns) |->
                IF df_columns[k] \in Range(subject_cols)
                THEN LET marks == marks_of(rows[i][k])
                     IN  IF marks = ValueError THEN Float(0) ELSE marks
                ELSE rows[i][k]]]

\* The rows of df after get_subject_marks: the loops read df.columns and
\* row[col] into locals (subject_cols, marks, total_marks, marks_data) and assign
\* to no column or cell.
rows_after_get_subject_marks(df_columns, rows, subject_name) ==
    rows

(*************************************************************************)
(* src/services/subjects.py: get_subject_marks_summary.                  *)
(*************************************************************************)
RECURSIVE sum(_)
sum(l) ==
    IF l = <<>> THEN 0 ELSE Head(l).float + sum(Tail(l))

has_nan(l) ==
    \E i \in DOMAIN l : l[i] = np_nan

\* np.mean of a list: nan for an empty list (with a warning), nan when an
\* element is nan, else the sum over the count.
np_mean(l) ==
    IF l = <<>> \/ has_nan(l) THEN np_nan
    ELSE Quotient(sum(l), Len(l))

\* np.max of a list: raises ValueError on an empty list.
np_max(l) ==
    IF l = <<>> THEN ValueError
    ELSE IF has_nan(l) THEN np_nan
    ELSE Float(CHOOSE m \in {l[i].float : i \in DOMAIN l} :
                   \A i \in DOMAIN l : l[i].float <= m)

\* np.min of a list: raises ValueError on an empty list.
np_min(l) ==
    IF l = <<>> THEN ValueError
    ELSE IF has_nan(l) THEN np_nan
    ELSE Float(CHOOSE m \in {l[i].float : i \in DOMAIN l} :
                   \A i \in DOMAIN l : m <= l[i].float)

RECURSIVE sum_sq_dev(_, _, _)
\* The sum over l of (n * x - s)^2, which is n^2 times the sum of the squared
\* deviations from the mean s / n.
sum_sq_dev(l, n, s) ==
    IF l = <<>> THEN 0
    ELSE (n * Head(l).float - s) * (n * Head(l).float - s) + sum_sq_dev(Tail(l), n, s)

\* The standard deviation with the squared deviations divided by count - 1.
np_std_sample(l) ==
    IF l = <<>> \/ has_nan(l) THEN np_nan
    ELSE [sqrt |-> Quotient(sum_sq_dev(l, Len(l), sum(l)),
                            Len(l) * Len(l) * (Len(l) - 1))]

\* np.std of a list (ddof = 0): the square root of the mean of the squared
\* deviations from the mean, kept as the exact quotient under the root.
np_std(l) ==
    IF l = <<>> \/ has_nan(l) THEN np_nan
    ELSE [sqrt |-> Quotient(sum_sq_dev(l, Len(l), sum(l)),
                            Len(l) * Len(l) * Len(l))]

\* get_subject_marks_summary(df, subject_name): the dict literal is built in
\* order, so np.max raising on an empty list ends the call with ValueError.
get_subject_marks_summary(df_columns, rows, subject_name) ==
    LET marks_data == get_subject_marks(df_columns, rows, subject_name)
    IN  IF marks_data = ReturnNone THEN ReturnNone
        ELSE IF np_max(marks_data.list) = ValueError THEN ValueError
        ELSE [total_marks |-> marks_data.list,
              average_marks |-> np_mean(marks_data.list),
              max_marks |-> np_max(marks_data.list),
              min_marks |-> np_min(marks_data.list),
              std_marks |-> np_std(marks_data.list)]

(*************************************************************************)
(* services.extract_max_marks_from_header is imported by src/app.py and  *)
(* its body is not part of the sources: it follows the specification's   *)
(* lookup (ESE 60, ISE and MSE 25, PRACTICAL and PR 25, TW 50, tested in *)
(* the order ESE, ISE, MSE, PRACTICAL, TW, PR) and its fallback, a       *)
(* numeral that ends the header; a header with neither infers no maximum.*)
(*************************************************************************)
RECURSIVE trailing_digits(_)
trailing_digits(s) ==
    IF s = <<>> \/ s[Len(s)] \notin Range(Digits) THEN <<>>
    ELSE trailing_digits(SubSeq(s, 1, Len(s) - 1)) \o <<s[Len(s)]>>

extract_max_marks_from_header(header) ==
    LET header_upper == upper(header)
    IN  IF contains(header_upper, ESE) THEN 60
        ELSE IF contains(header_upper, ISE) \/ contains(header_upper, MSE) THEN 25
        ELSE IF contains(header_upper, PRACTICAL) THEN 25
        ELSE IF contains(header_upper, TW) THEN 50
        ELSE IF contains(header_upper, PR) THEN 25
        ELSE digits_value(trailing_digits(header), 0)

(*************************************************************************)
(* src/app.py: _row_percentage.                                          *)
(*************************************************************************)
\* row.get(c, default) on a row labelled by df_columns.
row_get(df_columns, row, c, default) ==
    IF \E k \in DOMAIN df_columns : df_columns[k] = c
    THEN row_at(df_columns, row, c)
    ELSE default

\* val after the try block: float(val), or nan when float raises.
float_or_nan(val) ==
    IF float(val) = ValueError THEN np_nan ELSE float(val)

RECURSIVE row_percentage_totals_every_max(_, _, _, _, _)
\* The loop adding the maximum of every listed column, number or not.
row_percentage_totals_every_max(df_columns, row, cols, obtained_total, max_total) ==
    IF cols = <<>> THEN [obtained_total |-> obtained_total, max_total |-> max_total]
    ELSE LET c == Head(cols)
             val == float_or_nan(row_get(df_columns, row, c, np_nan))
         IN  row_percentage_totals_every_max(df_columns, row, Tail(cols),
                 IF pd_notna(val) THEN obtained_total + val.float ELSE obtained_total,
                 max_total + extract_max_marks_from_header(c))

RECURSIVE row_percentage_totals(_, _, _, _, _)
\* The loop over cols: obtained_total and max_total after it, both growing only
\* for a column whose value is a number.
row_percentage_totals(df_columns, row, cols, obtained_total, max_total) ==
    IF cols = <<>> THEN [obtained_total |-> obtained_total, max_total |-> max_total]
    ELSE LET c == Head(cols)
             val == float_or_nan(row_get(df_columns, row, c, np_nan))
         IN  IF pd_notna(val)
             THEN row_percentage_totals(df_columns, row, Tail(cols),
                                        obtained_total + val.float,
                                        max_total + extract_max_marks_from_header(c))
             ELSE row_percentage_totals(df_columns, row, Tail(cols),
                                        obtained_total, max_total)

\* The return with 0 in place of nan for a zero max_total.
row_percentage_zero_for_no_max(df_columns, row, cols) ==
    LET t == row_percentage_totals(df_columns, row, cols, 0, 0)
    IN  IF t.max_total > 0
        THEN Quotient(t.obtained_total * 100, t.max_total)
        ELSE Float(0)

\* _row_percentage(row, cols), the row labelled by df_columns:
\* (obtained_total / max_total) * 100.0 as an exact quotient, or nan.
_row_percentage(df_columns, row, cols) ==
    LET t == row_percentage_totals(df_columns, row, cols, 0, 0)
    IN  IF t.max_total > 0
        THEN Quotient(t.obtained_total * 100, t.max_total)
        ELSE np_nan

(*************************************************************************)
(* src/app.py: the session.  Streamlit runs the script from top to       *)
(* bottom on every interaction; st.session_state outlives the runs.      *)
(*************************************************************************)
\* A table object: the processing call that returned it, which of the
\* pair it is, and how many student rows it has.
Table(call, name, rows) ==
    [call |-> call, name |-> name, rows |-> rows]

\* None in st.session_state or in a page's locals.
NoTable == Table(0, "None", 0)

\* The uploader holds no file.
NoFile == [name |-> "None", identity_columns |-> FALSE, rows |-> 0]

\* Lines 189-192.
initial_session_state ==
    [df_full |-> NoTable, df_suggestions |-> NoTable]

\* services.process_excel_file is outside src/: it returns the pair
\* (df_full, df_suggestions) or raises when the identity columns are missing.
process_excel_file(uploaded_file, call) ==
    IF uploaded_file.identity_columns
    THEN [raises |-> FALSE,
          df_full |-> Table(call, "df_full", uploaded_file.rows),
          df_suggestions |-> Table(call, "df_suggestions", uploaded_file.rows)]
    ELSE [raises |-> TRUE]

\* Line 250: the Refresh Data button is rendered inside this test.
refresh_offered(state) ==
    state.df_full # NoTable

\* Lines 254-255.
refresh_data_full_only(state) ==
    [state EXCEPT !.df_full = NoTable]

refresh_data(state) ==
    [state EXCEPT !.df_full = NoTable, !.df_suggestions = NoTable]

\* Lines 260-276: the table the sidebar snapshot classifies, None if skipped.
sidebar_snapshot(state) ==
    IF state.df_full # NoTable /\ state.df_suggestions # NoTable
    THEN state.df_full
    ELSE NoTable

\* Lines 291-292.
store_full_only(state, result) ==
    [state EXCEPT !.df_full = result.df_full]

store(state, result) ==
    [state EXCEPT !.df_full = result.df_full,
                  !.df_suggestions = result.df_suggestions]

\* What a page leaves behind: the session state, the messages it showed
\* and the tables its code worked on.
Rendered(state, shown, df_full, df_suggestions, processed) ==
    [session_state |-> state, shown |-> shown, df_full |-> df_full,
     df_suggestions |-> df_suggestions, processed |-> processed]

\* Lines 278-361.  The division of line 316 raises for a table without
\* rows, after lines 291-293, and lands in the except of line 356.
upload_page_clearing_on_failure(state, uploaded_file, call) ==
    IF uploaded_file = NoFile
    THEN Rendered(state, {"info"}, NoTable, NoTable, FALSE)
    ELSE LET result == process_excel_file(uploaded_file, call) IN
         IF result.raises
         THEN Rendered(refresh_data(state), {"error"}, NoTable, NoTable, TRUE)
         ELSE IF result.df_full.rows = 0
              THEN Rendered(store(state, result), {"success", "error"},
                            result.df_full, result.df_suggestions, TRUE)
              ELSE Rendered(store(state, result), {"success"},
                            result.df_full, result.df_suggestions, TRUE)

upload_page(state, uploaded_file, call) ==
    IF uploaded_file = NoFile
    THEN Rendered(state, {"info"}, NoTable, NoTable, FALSE)
    ELSE LET result == process_excel_file(uploaded_file, call) IN
         IF result.raises
         THEN Rendered(state, {"error"}, NoTable, NoTable, TRUE)
         ELSE IF result.df_full.rows = 0
              THEN Rendered(store(state, result), {"success", "error"},
                            result.df_full, result.df_suggestions, TRUE)
              ELSE Rendered(store(state, result), {"success"},
                            result.df_full, result.df_suggestions, TRUE)

\* Lines 364-366 and 555-556, and the same test on the Students, Subjects,
\* Insights and Reports pages (559, 659, 745, 977).
analysis_page_unguarded(state) ==
    Rendered(state, {"analysis"}, state.df_full, state.df_suggestions, FALSE)

analysis_page(state) ==
    IF state.df_full # NoTable
    THEN Rendered(state, {"analysis"}, state.df_full, state.df_suggestions, FALSE)
    ELSE Rendered(state, {"warning"}, NoTable, NoTable, FALSE)

\* One run of the script: the sidebar (lines 250-276), then the page
\* (lines 278-1223).  st.rerun() of line 256 ends the run at once.
script(state, page, uploaded_file, clicked, call) ==
    IF refresh_offered(state) /\ clicked
    THEN [page |-> Rendered(refresh_data(state), {}, NoTable, NoTable, FALSE),
          refresh_offered |-> TRUE, snapshot |-> NoTable, rerun |-> TRUE]
    ELSE [page |-> IF page = "Upload"
                   THEN upload_page(state, uploaded_file, call)
                   ELSE analysis_page(state),
          refresh_offered |-> refresh_offered(state),
          snapshot |-> sidebar_snapshot(state),
          rerun |-> FALSE]

(*************************************************************************)
(* Inputs.                                                               *)
(*************************************************************************)
\* Header vocabulary for the per-header operations: a subject word, a
\* delimiter, a marker word and a tail, concatenated.
SubjectWords ==
    { <<>>,
      <<"D", "B", "M", "S">>,
      <<"M", "a", "t", "h", "s">>,
      <<"O", "S">>,
      <<"N", "E", "T", "W", "O", "R", "K", "S">>,
      <<"P", "R", "O", "G", "R", "A", "M", "M", "I", "N", "G">>,
      <<"E", "N", "T", "E", "R", "P", "R", "I", "S", "E">>,
      <<"C", "H", "I", "N", "E", "S", "E">>,
      <<"D", "A", "T", "A", "_", "S", "T", "R", "U", "C", "T", "U", "R", "E", "S">> }

Delimiters ==
    { <<>>, <<" ">>, <<"_">> }

MarkerWords ==
    { <<>>, ISE, MSE, ESE, PRACTICAL, TW, PR,
      <<"P", "r", "a", "c", "t", "i", "c", "a", "l">>,
      <<"p", "r">> }

Tails ==
    { <<>>, <<" ", "T", "W">>, <<" ", "2", "5">> }

Headers ==
    {w \o d \o m \o t : w \in SubjectWords, d \in Delimiters, m \in MarkerWords, t \in Tails}

\* What _is_practical_col is handed: a header, a metadata name, or no header.
ColNames ==
    Headers \cup exclude_cols \cup {None, NaN}

\* What _get_max_marks_for_subject is handed as exam_type.
ExamTypes ==
    { None, <<>>, ESE, ISE, MSE, PRACTICAL, PR, TW,
      <<"U", "N", "K", "N", "O", "W", "N">>,
      <<"Q", "U", "I", "Z">>,
      <<"P", "R", "O", "J", "E", "C", "T">>,
      <<"e", "s", "e">>,
      <<"T", "w">>,
      <<"P", "r", "a", "c", "t", "i", "c", "a", "l">>,
      <<"E", "S", "E", " ", "T", "W">> }

SubjectNames ==
    { None, <<"D", "b", "m", "s">>, <<"M", "a", "t", "h", "s">>, <<"O", "s">> }

\* Headers the tables are built from.
NAME == <<"N", "a", "m", "e">>
SR_NO == <<"S", "R", ".", "N", "o">>
CODING_EXPERTISE ==
    <<"C", "o", "d", "i", "n", "g", "_", "E", "x", "p", "e", "r", "t", "i", "s", "e">>
TOTAL == <<"T", "o", "t", "a", "l">>
MATHS_MSE == <<"M", "A", "T", "H", "S", " ", "M", "S", "E">>
MATHS_ESE == <<"M", "A", "T", "H", "S", " ", "E", "S", "E">>
DBMS_PRACTICAL == <<"D", "B", "M", "S", " ", "P", "R", "A", "C", "T", "I", "C", "A", "L">>
DBMS__PRACTICAL == <<"D", "B", "M", "S", "_", "P", "R", "A", "C", "T", "I", "C", "A", "L">>
BLANK_MSE_TW == <<" ", "M", "S", "E", " ", "T", "W">>

TableHeaders ==
    { CODING_EXPERTISE, TOTAL, MATHS_MSE, MATHS_ESE, DBMS_PRACTICAL,
      DBMS__PRACTICAL, BLANK_MSE_TW }

\* The columns of the two-row scenario table.
ScenarioColumns ==
    <<SR_NO, NAME, MATHS_MSE, MATHS_ESE, DBMS_PRACTICAL>>

MaxCols == 3

\* The column lists of the tables handed to the engine.
Tables ==
    UNION {[1..n -> TableHeaders] : n \in 0..MaxCols} \cup {ScenarioColumns}

(*************************************************************************)
(* State.                                                                *)
(*************************************************************************)
VARIABLES
    op,             \* the per-header operation last called ("init" before any)
    args,           \* its arguments
    ret,            \* what it returned
    df_columns,     \* df.columns of the table the engine is handed
    subjects,       \* what the latest get_subject_list(df) returned
    prev_subjects,  \* what the call before it returned
    since,          \* what happened to the caller's table since the latest call
    between,        \* what happened between the latest call and the one before
    exam_types,     \* what the latest get_subject_exam_types returned
    df_rows,        \* the rows of the table, each the cells under df_columns
    marks_summary,  \* what the latest get_subject_marks_summary returned
    session_state,  \* st.session_state: df_full and df_suggestions
    widgets,        \* the page and theme selected, the file the uploader holds
    screen,         \* what the latest run of the script rendered
    calls           \* the process_excel_file calls made and the latest to succeed

vars ==
    <<op, args, ret, df_columns, subjects, prev_subjects, since, between, exam_types,
      df_rows, marks_summary, session_state, widgets, screen, calls>>

session_vars ==
    <<session_state, widgets, screen, calls>>

\* The session once the script has run for the first time: lines 189-192,
\* then the Upload page with an empty uploader.
SessionStarted ==
    /\ session_state = initial_session_state
    /\ widgets = [page |-> "Upload", theme |-> "Default", uploaded_file |-> NoFile,
                  event |-> "open"]
    /\ screen = script(initial_session_state, "Upload", NoFile, FALSE, 1)
    /\ calls = [made |-> 0, succeeded |-> 0]

\* No call made yet.
NotCalled == <<None>>

table_vars ==
    <<df_columns, subjects, prev_subjects, since, between, exam_types,
      df_rows, marks_summary, session_vars>>

marks_vars ==
    <<df_rows, marks_summary, session_vars>>

call_vars ==
    <<op, args, ret>>

(*************************************************************************)
(* The per-header operations: each run calls one of them on one input.   *)
(*************************************************************************)
InitClassifier ==
    /\ op = "init" /\ args = <<>> /\ ret = None
    /\ df_columns = <<>>
    /\ subjects = NotCalled /\ prev_subjects = NotCalled
    /\ since = {} /\ between = {}
    /\ exam_types = NotCalled
    /\ df_rows = <<>> /\ marks_summary = NotCalled
    /\ SessionStarted

IsPracticalCol ==
    \E col_name \in ColNames :
        /\ op = "init"
        /\ op' = "_is_practical_col"
        /\ args' = <<col_name>>
        /\ ret' = _is_practical_col(col_name)
        /\ UNCHANGED table_vars

GetMaxMarksForSubject ==
    \E subject_name \in SubjectNames, exam_type \in ExamTypes :
        /\ op = "init"
        /\ op' = "_get_max_marks_for_subject"
        /\ args' = <<subject_name, exam_type>>
        /\ ret' = _get_max_marks_for_subject(subject_name, exam_type)
        /\ UNCHANGED table_vars

\* One pass of get_subject_list's inner loop, on one header.
Classify ==
    \E col \in Headers :
        /\ op = "init"
        /\ op' = "classify"
        /\ args' = <<col>>
        /\ ret' = classify(col)
        /\ UNCHANGED table_vars

NextClassifier ==
    \/ IsPracticalCol
    \/ GetMaxMarksForSubject
    \/ Classify

SpecClassifier ==
    InitClassifier /\ [][NextClassifier]_vars

(*************************************************************************)
(* The engine on a table.                                                *)
(*************************************************************************)
Init ==
    /\ op = "init" /\ args = <<>> /\ ret = None
    /\ df_columns \in Tables
    /\ subjects = NotCalled /\ prev_subjects = NotCalled
    /\ since = {} /\ between = {}
    /\ exam_types = NotCalled
    /\ df_rows = <<>> /\ marks_summary = NotCalled
    /\ SessionStarted

GetSubjectList ==
    /\ subjects' \in get_subject_list(df_columns)
    /\ prev_subjects' = subjects
    /\ between' = since
    /\ since' = {}
    /\ UNCHANGED <<df_columns, exam_types, call_vars, marks_vars>>

\* The caller hands the engine the same table with two neighbouring columns
\* exchanged.
PermuteColumns ==
    \E i \in 1..(Len(df_columns) - 1) :
        /\ df_columns' = [df_columns EXCEPT ![i] = df_columns[i + 1],
                                            ![i + 1] = df_columns[i]]
        /\ since' = since \cup {"permute"}
        /\ UNCHANGED <<subjects, prev_subjects, between, exam_types, call_vars, marks_vars>>

\* Another operation of the engine, on a subject of the list last returned.
GetSubjectExamTypes ==
    /\ subjects # NotCalled
    /\ \E i \in DOMAIN subjects :
        /\ exam_types' \in get_subject_exam_types(df_columns, subjects[i])
        /\ since' = since \cup {"get_subject_exam_types"}
        /\ UNCHANGED <<df_columns, subjects, prev_subjects, between, call_vars, marks_vars>>

Next ==
    \/ GetSubjectList
    \/ PermuteColumns
    \/ GetSubjectExamTypes

Spec ==
    Init /\ [][Next]_vars

(*************************************************************************)
(* Properties.  They are stated with the definitions below, which read   *)
(* a header directly and use none of the operators that model the code's *)
(* classification.                                                       *)
(*************************************************************************)
DBMS_TW == <<"D", "B", "M", "S", " ", "T", "W">>
DBMS_PR == <<"D", "B", "M", "S", " ", "P", "R">>
ENTERPRISE_ESE == <<"E", "N", "T", "E", "R", "P", "R", "I", "S", "E", " ", "E", "S", "E">>
UNKNOWN == <<"U", "N", "K", "N", "O", "W", "N">>
PROJECT == <<"P", "R", "O", "J", "E", "C", "T">>

MarkerNames ==
    {ESE, ISE, MSE, PRACTICAL, PR, TW}

\* sub occurs in s at position i.
OccursAt(s, sub, i) ==
    /\ i >= 1
    /\ i + Len(sub) - 1 <= Len(s)
    /\ \A j \in 1..Len(sub) : s[i + j - 1] = sub[j]

Occurs(s, sub) ==
    \E i \in 1..Len(s) : OccursAt(s, sub, i)

HasMarker(s) ==
    \E m \in MarkerNames : Occurs(upper(s), m)

\* The text of s before the first occurrence of sub.
TextBefore(s, sub) ==
    LET first == CHOOSE i \in 1..Len(s) :
                    OccursAt(s, sub, i) /\ \A j \in 1..(i - 1) : ~OccursAt(s, sub, j)
    IN  [k \in 1..(first - 1) |-> s[k]]

\* The first marker of the list `order` that occurs in s.
FirstMarker(order, s) ==
    LET first == CHOOSE k \in DOMAIN order :
                    Occurs(s, order[k]) /\ \A j \in 1..(k - 1) : ~Occurs(s, order[j])
    IN  order[first]

\* A character that delimits tokens of a header: neither a letter nor a digit.
IsDelimiter(c) ==
    c \notin (Range(UpperLetters) \cup Range(LowerLetters) \cup Range(Digits))

\* PR stands in s as a token of its own, delimited on both sides.
StandalonePR(s) ==
    \E i \in 1..Len(s) :
        /\ OccursAt(s, PR, i)
        /\ (i = 1 \/ IsDelimiter(s[i - 1]))
        /\ (i + 1 = Len(s) \/ IsDelimiter(s[i + 2]))

\* C1: a header whose uppercased text contains TW and not PR is never practical;
\* "DBMS TW" is not practical, "DBMS PRACTICAL" and "DBMS PR" are.
C1_TwWithoutPrNotPractical ==
    op = "_is_practical_col" =>
        LET col_name == args[1]
        IN  /\ ( /\ col_name \notin {None, NaN}
                 /\ Occurs(upper(col_name), TW)
                 /\ ~Occurs(upper(col_name), PR) ) => ret = FALSE
            /\ col_name = DBMS_TW => ret = FALSE
            /\ col_name = DBMS_PRACTICAL => ret = TRUE
            /\ col_name = DBMS_PR => ret = TRUE

C1_Witness ==
    op = "_is_practical_col" /\ args = <<DBMS_TW>> /\ ret = FALSE

\* C2: outside the TW-without-PR exclusion, a header is practical exactly when
\* its uppercased text contains PRACTICAL or contains PR as a token of its own,
\* delimited from the subject name; an empty or missing header is not practical.
C2_PracticalIffWordOrToken ==
    op = "_is_practical_col" =>
        LET col_name == args[1]
        IN  IF col_name \in {None, NaN, <<>>} THEN ret = FALSE
            ELSE LET u == upper(col_name)
                 IN  ~(Occurs(u, TW) /\ ~Occurs(u, PR)) =>
                        (ret = TRUE <=> (Occurs(u, PRACTICAL) \/ StandalonePR(u)))

\* C3 as stated: the lookup knows the six type names and nothing else, so every
\* other type gives 100.
C3_UnnamedTypeGivesHundred ==
    op = "_get_max_marks_for_subject" =>
        LET exam_type == args[2]
        IN  (exam_type \in {None, <<>>} \/ upper(exam_type) \notin MarkerNames)
                => ret = 100

\* C3 as amended: ESE gives 60, ISE and MSE 25, PRACTICAL and PR 25, TW 50, an
\* absent or empty type 100, and a type whose uppercased text contains none of
\* the six names 100; a type that contains one is matched on it, ESE before
\* ISE/MSE before PRACTICAL/PR before TW; the subject name never matters.
C3_MaxMarksLookup ==
    op = "_get_max_marks_for_subject" =>
        LET exam_type == args[2]
        IN  /\ exam_type = ESE => ret = 60
            /\ exam_type \in {ISE, MSE} => ret = 25
            /\ exam_type \in {PRACTICAL, PR} => ret = 25
            /\ exam_type = TW => ret = 50
            /\ exam_type = UNKNOWN => ret = 100
            /\ exam_type = PROJECT => ret = 25
            /\ exam_type \in {None, <<>>} => ret = 100
            /\ (exam_type # None /\ ~HasMarker(exam_type)) => ret = 100
            /\ (exam_type # None /\ HasMarker(exam_type)) =>
                    LET u == upper(exam_type)
                    IN  ret = IF Occurs(u, ESE) THEN 60
                              ELSE IF Occurs(u, ISE) \/ Occurs(u, MSE) \/ Occurs(u, PR)
                                   THEN 25
                                   ELSE 50
            /\ \A subject_name \in SubjectNames :
                    _get_max_marks_for_subject(subject_name, exam_type) = ret

C3_Witness ==
    op = "_get_max_marks_for_subject" /\ args[2] = TW /\ ret = 50

\* C4 as stated: the header is split on the first marker, in the order ESE, ISE,
\* MSE, PRACTICAL, TW, PR, that its uppercased text contains, and the candidate
\* is the text before that marker's first occurrence.
C4_SplitOnFirstMarkerEseFirst ==
    (op = "classify" /\ HasMarker(args[1])) =>
        LET u == upper(args[1])
            m == FirstMarker(<<ESE, ISE, MSE, PRACTICAL, TW, PR>>, u)
        IN  ret.assessment = m /\ ret.candidate = TextBefore(u, m)

\* C4 as amended: the order is ISE, MSE, ESE, PRACTICAL, TW, PR; a header no
\* marker occurs in is not classified.
C4_SplitOnFirstMarker ==
    op = "classify" =>
        IF HasMarker(args[1])
        THEN LET u == upper(args[1])
                 m == FirstMarker(<<ISE, MSE, ESE, PRACTICAL, TW, PR>>, u)
             IN  ret.assessment = m /\ ret.candidate = TextBefore(u, m)
        ELSE ret = NoMatch

C4_Witness ==
    /\ op = "classify" /\ args = <<ENTERPRISE_ESE>>
    /\ ret.assessment = ISE
    /\ ret.candidate = <<"E", "N", "T", "E", "R", "P", "R">>

\* The subject names a header can give: the text before a marker, normalized.
DBMS_SUBJECT == <<"D", "b", "m", "s">>
MATHS_SUBJECT == <<"M", "a", "t", "h", "s">>

\* The latest call was made on the table as it stands.
Fresh ==
    subjects # NotCalled /\ "permute" \notin since

\* A subject name is normalized: no space at either end, no underscore, and
\* title-cased (a letter is upper-case exactly when no letter precedes it).
Normalized(s) ==
    /\ s # <<>>
    /\ s[1] # " " /\ s[Len(s)] # " "
    /\ \A i \in DOMAIN s : s[i] # "_"
    /\ \A i \in DOMAIN s :
          /\ s[i] \in Range(LowerLetters) =>
                (i > 1 /\ s[i - 1] \in Range(UpperLetters) \cup Range(LowerLetters))
          /\ s[i] \in Range(UpperLetters) =>
                (i = 1 \/ s[i - 1] \notin Range(UpperLetters) \cup Range(LowerLetters))

\* Two headers whose text before the marker differs only in underscore or space.
SameButUnderscore(a, b) ==
    /\ Len(a) = Len(b)
    /\ \A i \in DOMAIN a : a[i] = b[i] \/ {a[i], b[i]} = {"_", " "}

\* C5: every subject name returned is normalized, and two columns whose headers
\* differ only in underscore versus space give one subject, not two.
C5_SubjectsNormalized ==
    Fresh =>
        /\ \A i \in DOMAIN subjects : Normalized(subjects[i])
        /\ \A i, j \in DOMAIN df_columns :
              ( /\ SameButUnderscore(df_columns[i], df_columns[j])
                /\ \A k \in DOMAIN df_columns : k \in {i, j} \/ ~HasMarker(df_columns[k]) )
              => Len(subjects) <= 1

\* The nine names get_subject_list leaves out.
MetadataNames ==
    { <<"S", "R", ".", "N", "o">>,
      <<"R", "o", "l", "l", " ", "N", "o">>,
      <<"N", "a", "m", "e">>,
      <<"A", "c", "a", "d", "e", "m", "i", "c", "_", "P", "e", "r", "f", "o", "r",
        "m", "a", "n", "c", "e", "_", "%">>,
      <<"P", "r", "e", "v", "i", "o", "u", "s", "_", "P", "e", "r", "f", "o", "r",
        "m", "a", "n", "c", "e", "_", "A", "n", "a", "l", "y", "s", "i", "s">>,
      <<"P", "r", "a", "c", "t", "i", "c", "a", "l", "_", "%">>,
      <<"C", "o", "d", "i", "n", "g", "_", "E", "x", "p", "e", "r", "t", "i", "s", "e">>,
      <<"P", "e", "r", "f", "o", "r", "m", "a", "n", "c", "e", "_", "A", "n", "a",
        "l", "y", "s", "i", "s">>,
      <<"C", "a", "t", "e", "g", "o", "r", "y">> }

\* The subject a column classifies to, if it does: the text before the first
\* occurrence of its first marker, trimmed, then underscores to spaces and
\* title-cased; none for a metadata name, a header without a marker, or a
\* blank text.
SubjectOf(col) ==
    IF col \in MetadataNames \/ ~HasMarker(col) THEN {}
    ELSE LET u == upper(col)
             before == strip(TextBefore(u, FirstMarker(<<ISE, MSE, ESE, PRACTICAL, TW, PR>>, u)))
         IN  IF before = <<>> THEN {} ELSE {title(replace(before, "_", " "))}

ClassifiedSubjects(columns) ==
    UNION {SubjectOf(columns[i]) : i \in DOMAIN columns}

\* C6: the list returned has no duplicates, is in strictly ascending order, and
\* holds exactly the subjects of the columns that classify; the scenario's
\* columns give ["Dbms", "Maths"].
C6_SortedUniqueExact ==
    Fresh =>
        /\ \A i, j \in DOMAIN subjects : i < j => str_less(subjects[i], subjects[j])
        /\ Range(subjects) = ClassifiedSubjects(df_columns)
        /\ df_columns = ScenarioColumns => subjects = <<DBMS_SUBJECT, MATHS_SUBJECT>>

C6_Witness ==
    /\ Fresh
    /\ df_columns = <<MATHS_MSE, DBMS_PRACTICAL, MATHS_ESE>>
    /\ subjects = <<DBMS_SUBJECT, MATHS_SUBJECT>>

\* C7: a call on the table with its columns permuted returns the list the call
\* before it returned.
C7_PermutationInvariant ==
    (prev_subjects # NotCalled /\ "permute" \in between) => subjects = prev_subjects

C7_Witness ==
    /\ prev_subjects # NotCalled /\ "permute" \in between
    /\ Len(subjects) >= 2
    /\ df_columns = <<MATHS_MSE, DBMS__PRACTICAL, DBMS_PRACTICAL>>

\* C8: a second call on the same table, whatever other operation ran in
\* between, returns the list the first call returned.
C8_Idempotent ==
    (prev_subjects # NotCalled /\ "permute" \notin between) => subjects = prev_subjects

C8_Witness ==
    /\ prev_subjects # NotCalled
    /\ between = {"get_subject_exam_types"}
    /\ Len(subjects) >= 2

\* The text before the header's first marker (in the code's order) is empty or
\* only whitespace.
BlankCandidate(col) ==
    /\ HasMarker(col)
    /\ LET u == upper(col)
           before == TextBefore(u, FirstMarker(<<ISE, MSE, ESE, PRACTICAL, TW, PR>>, u))
       IN  \A i \in DOMAIN before : before[i] = " "

\* columns without the columns that satisfy Drop.
Without(columns, Drop(_)) ==
    SelectSeq(columns, LAMBDA col : ~Drop(col))

\* C9: a header whose candidate is empty or whitespace adds no subject, also not
\* through a marker later in the list: the list returned is the one the table
\* gives without such columns.
C9_BlankCandidateAddsNothing ==
    Fresh => subjects \in get_subject_list(Without(df_columns, BlankCandidate))

C9_Witness ==
    /\ Fresh
    /\ df_columns = <<BLANK_MSE_TW, MATHS_MSE>>
    /\ subjects = <<MATHS_SUBJECT>>

MetadataOrNoMarker(col) ==
    col \in MetadataNames \/ ~HasMarker(col)

\* C10: no metadata column and no header without a marker adds a subject: every
\* subject returned is the normalized text before a marker of some other column.
C10_MetadataAddsNothing ==
    Fresh =>
        \A i \in DOMAIN subjects :
            \E k \in DOMAIN df_columns :
                /\ ~MetadataOrNoMarker(df_columns[k])
                /\ \E m \in MarkerNames :
                      /\ Occurs(upper(df_columns[k]), m)
                      /\ subjects[i] =
                            title(replace(strip(TextBefore(upper(df_columns[k]), m)), "_", " "))

C10_Witness ==
    /\ Fresh
    /\ df_columns = <<CODING_EXPERTISE, TOTAL, MATHS_MSE>>
    /\ subjects = <<MATHS_SUBJECT>>

(*************************************************************************)
(* The marks operations on a table with rows.                            *)
(*************************************************************************)
QUIZ_10 == <<"Q", "U", "I", "Z", " ", "1", "0">>
ENTERPRISE_MSE == <<"E", "N", "T", "E", "R", "P", "R", "I", "S", "E", " ", "M", "S", "E">>
MATHS_SUBJECT_ARG == <<"M", "a", "t", "h", "s">>
DBMS_SUBJECT_ARG == <<"D", "b", "m", "s">>
ENTERPR_SUBJECT_ARG == <<"E", "n", "t", "e", "r", "p", "r">>
DATA_STRUCTURES_MSE == <<"D", "A", "T", "A", "_", "S", "T", "R", "U", "C", "T", "U", "R", "E", "S", "_", "M", "S", "E">>
OS_ESE == <<"O", "S", " ", "E", "S", "E">>
COSMOS_ESE == <<"C", "O", "S", "M", "O", "S", " ", "E", "S", "E">>

\* What a cell holds: nothing, a text that is no number, the text "nan", a mark.
Cells ==
    { np_nan,
      Str(<<"A", "B">>),
      Str(<<"n", "a", "n">>),
      Float(20),
      Float(30) }

MaxRows == 2

\* The cells of a column that was filled in with marks or left empty.
Marks ==
    { np_nan, Float(20), Float(30) }

\* The column lists of the tables whose rows hold any cells; no label occurs
\* twice.
MarksColumnLists ==
    { <<>>,
      <<MATHS_MSE, MATHS_ESE>>,
      <<ENTERPRISE_MSE>>,
      <<QUIZ_10>> }

\* The column lists of the tables whose rows hold marks: two subjects, one
\* with a written exam and one with a practical.
MixedColumnLists ==
    { <<MATHS_MSE, DBMS_PRACTICAL>> }

\* A header written with underscores, and two subjects the name of one of
\* which is part of the other's header.
ListedColumnLists ==
    { <<DATA_STRUCTURES_MSE>>,
      <<OS_ESE, COSMOS_ESE>> }

\* The tables with one of the column lists and up to MaxRows rows of the cells.
TablesOver(column_lists, cells) ==
    UNION { { [columns |-> c, rows |-> r] :
                r \in UNION {[1..n -> [1..Len(c) -> cells]] : n \in 0..MaxRows} } :
            c \in column_lists }

\* The two-row scenario table: SR.No, Name, MATHS MSE, MATHS ESE, DBMS PRACTICAL.
ScenarioRows ==
    << <<Float(1), Str(<<"A">>), Float(20), Float(45), Float(20)>>,
       <<Float(2), Str(<<"B">>), Float(10), Float(30), Float(15)>> >>

\* Three students of one subject with an MSE and an ESE column, whose totals
\* are 70, 40 and 85.
TotalsColumns ==
    <<MATHS_MSE, MATHS_ESE>>

TotalsRows ==
    << <<Float(20), Float(50)>>,
       <<Float(10), Float(30)>>,
       <<Float(25), Float(60)>> >>

MarksTables ==
    TablesOver(MarksColumnLists, Cells)
    \cup TablesOver(MixedColumnLists \cup ListedColumnLists, Marks)
    \cup { [columns |-> ScenarioColumns, rows |-> ScenarioRows],
           [columns |-> TotalsColumns, rows |-> TotalsRows] }

\* The subject names the operations are asked about.
SubjectArgs ==
    { MATHS_SUBJECT_ARG, DBMS_SUBJECT_ARG, ENTERPR_SUBJECT_ARG }

\* The subjects get_subject_list returns for the table: the Subjects page
\* (src/app.py:662-689) hands each of them to get_subject_marks.
ListedSubjects(columns) ==
    UNION {Range(l) : l \in get_subject_list(columns)}

\* The column lists _row_percentage is handed: none, the subject columns of the
\* scenario, the two written exams, and labels with no assessment type.
RowColumnLists ==
    { <<>>, <<MATHS_MSE, MATHS_ESE, DBMS_PRACTICAL>>, <<MATHS_MSE, MATHS_ESE>>,
      <<QUIZ_10, NAME>> }

InitMarks ==
    /\ op = "init" /\ args = <<>> /\ ret = None
    /\ \E t \in MarksTables : df_columns = t.columns /\ df_rows = t.rows
    /\ subjects = NotCalled /\ prev_subjects = NotCalled
    /\ since = {} /\ between = {}
    /\ exam_types = NotCalled
    /\ marks_summary = NotCalled
    /\ SessionStarted

engine_vars ==
    <<subjects, prev_subjects, since, between, exam_types, session_vars>>

SubjectList ==
    /\ op = "init"
    /\ op' = "get_subject_list"
    /\ args' = <<>>
    /\ \E l \in get_subject_list(df_columns) : ret' = List(l)
    /\ UNCHANGED <<df_columns, df_rows, marks_summary, engine_vars>>

SubjectExamTypes ==
    \E subject_name \in SubjectArgs :
        /\ op = "init"
        /\ op' = "get_subject_exam_types"
        /\ args' = <<subject_name>>
        /\ \E l \in get_subject_exam_types(df_columns, subject_name) : ret' = List(l)
        /\ UNCHANGED <<df_columns, df_rows, marks_summary, engine_vars>>

GetSubjectMarks ==
    \E subject_name \in SubjectArgs \cup ListedSubjects(df_columns) :
        /\ op = "init"
        /\ op' = "get_subject_marks"
        /\ args' = <<subject_name>>
        /\ ret' = get_subject_marks(df_columns, df_rows, subject_name)
        /\ df_rows' = rows_after_get_subject_marks(df_columns, df_rows, subject_name)
        /\ UNCHANGED <<df_columns, marks_summary, engine_vars>>

\* The summary of the subject whose marks were just asked for, on the same table.
GetSubjectMarksSummary ==
    /\ op = "get_subject_marks"
    /\ op' = "get_subject_marks_summary"
    /\ marks_summary' = get_subject_marks_summary(df_columns, df_rows, args[1])
    /\ UNCHANGED <<args, ret, df_columns, df_rows, engine_vars>>

\* _row_percentage on the i-th row of the table and a list of columns.
RowPercentage ==
    \E i \in DOMAIN df_rows, cols \in RowColumnLists :
        /\ op = "init"
        /\ op' = "_row_percentage"
        /\ args' = <<i, cols>>
        /\ ret' = _row_percentage(df_columns, df_rows[i], cols)
        /\ UNCHANGED <<df_columns, df_rows, marks_summary, engine_vars>>

NextMarks ==
    \/ SubjectList
    \/ SubjectExamTypes
    \/ GetSubjectMarks
    \/ GetSubjectMarksSummary
    \/ RowPercentage

SpecMarks ==
    InitMarks /\ [][NextMarks]_vars

(*************************************************************************)
(* Properties of the marks operations.  They read the table directly.    *)
(*************************************************************************)
IsList(v) ==
    DOMAIN v = {"list"}

IsNumber(cell) ==
    DOMAIN cell = {"float"}

\* The header names the subject together with MSE or ESE.
NamesWrittenExam(col, subject) ==
    /\ Occurs(upper(col), upper(subject))
    /\ Occurs(upper(col), MSE) \/ Occurs(upper(col), ESE)

\* The positions of the columns that name the subject with MSE or ESE.
WrittenExamColumns(subject) ==
    {k \in DOMAIN df_columns : NamesWrittenExam(df_columns[k], subject)}

\* A number counts its value, any other cell zero.
ValueOrZero(cell) ==
    IF IsNumber(cell) THEN cell.float ELSE 0

RECURSIVE SumCells(_, _)
\* The sum of ValueOrZero over the cells of the row at the positions K.
SumCells(row, K) ==
    IF K = {} THEN 0
    ELSE LET k == CHOOSE k \in K : TRUE
         IN  ValueOrZero(row[k]) + SumCells(row, K \ {k})

AllNumbers(row, K) ==
    \A k \in K : IsNumber(row[k])

\* C11: when a column names the subject with MSE or ESE, get_subject_marks
\* returns a list with one total per row, in row order, the i-th being the plain
\* sum of row i's marks in those columns; marks 20 and 50 give 70 and the
\* scenario table gives [65, 40] for Maths.
C11_OneRawTotalPerRow ==
    op = "get_subject_marks" =>
        LET K == WrittenExamColumns(args[1])
        IN  /\ K # {} =>
                /\ IsList(ret)
                /\ Len(ret.list) = Len(df_rows)
                /\ \A i \in DOMAIN df_rows :
                      AllNumbers(df_rows[i], K) =>
                          ret.list[i] = Float(SumCells(df_rows[i], K))
            /\ (df_columns = TotalsColumns /\ df_rows = TotalsRows
                    /\ args[1] = MATHS_SUBJECT_ARG) => ret.list[1] = Float(70)
            /\ (df_columns = ScenarioColumns /\ df_rows = ScenarioRows
                    /\ args[1] = MATHS_SUBJECT_ARG) => ret = List(<<Float(65), Float(40)>>)

C11_Witness ==
    /\ op = "get_subject_marks"
    /\ df_columns = ScenarioColumns /\ df_rows = ScenarioRows
    /\ args = <<MATHS_SUBJECT_ARG>>
    /\ ret = List(<<Float(65), Float(40)>>)

\* C12: get_subject_marks returns None exactly when no column names the subject
\* with MSE or ESE, and then no list of zeros; with such a column it returns a
\* list with an entry for every row, be they all zero.
C12_NoneIffNoColumn ==
    op = "get_subject_marks" =>
        LET K == WrittenExamColumns(args[1])
        IN  /\ ret = ReturnNone <=> K = {}
            /\ K # {} => IsList(ret) /\ Len(ret.list) = Len(df_rows)

C12_Witness ==
    /\ op = "get_subject_marks"
    /\ df_columns = <<MATHS_MSE, DBMS_PRACTICAL>>
    /\ Len(df_rows) = 2
    /\ args = <<DBMS_SUBJECT_ARG>>
    /\ ret = ReturnNone

\* The type the classifier of get_subject_list gives a header: the first marker
\* of its list that the uppercased header contains.
ClassifiedType(col) ==
    FirstMarker(assessments, upper(col))

\* C13: only columns classified MSE or ESE are summed: every total is the sum
\* of the row's marks in the subject's columns of classified type MSE or ESE,
\* and a column classified ISE, PRACTICAL or TW adds nothing to it.
C13_WrittenExamsOnly ==
    (op = "get_subject_marks" /\ IsList(ret)) =>
        LET K == {k \in DOMAIN df_columns :
                     /\ Occurs(upper(df_columns[k]), upper(args[1]))
                     /\ HasMarker(df_columns[k])
                     /\ ClassifiedType(df_columns[k]) \in {MSE, ESE}}
        IN  \A i \in DOMAIN df_rows :
                AllNumbers(df_rows[i], WrittenExamColumns(args[1])) =>
                    ret.list[i] = Float(SumCells(df_rows[i], K))

\* C14: a missing cell and a cell that holds no number add zero to the total of
\* their row and end nothing: every row has its total, the sum of the numbers in
\* the subject's columns.
C14_MalformedCellCountsZero ==
    (op = "get_subject_marks" /\ WrittenExamColumns(args[1]) # {}) =>
        /\ IsList(ret)
        /\ Len(ret.list) = Len(df_rows)
        /\ \A i \in DOMAIN df_rows :
              ret.list[i] = Float(SumCells(df_rows[i], WrittenExamColumns(args[1])))

\* The cell of the row under the label c, nan when the row has no such label.
CellUnder(row, c) ==
    IF \E k \in DOMAIN df_columns : df_columns[k] = c
    THEN row[CHOOSE k \in DOMAIN df_columns : df_columns[k] = c]
    ELSE np_nan

RECURSIVE ObtainedSum(_, _)
\* The sum of the row's numbers over the listed columns, other cells as zero.
ObtainedSum(row, listed) ==
    IF listed = <<>> THEN 0
    ELSE ValueOrZero(CellUnder(row, Head(listed))) + ObtainedSum(row, Tail(listed))

RECURSIVE MaxSumOfEach(_)
\* The sum of the inferred maximum of each listed column.
MaxSumOfEach(listed) ==
    IF listed = <<>> THEN 0
    ELSE extract_max_marks_from_header(Head(listed)) + MaxSumOfEach(Tail(listed))

\* The listed columns under which the row holds a number.
NumberColumns(row, listed) ==
    SelectSeq(listed, LAMBDA c : IsNumber(CellUnder(row, c)))

IsQuotient(v) ==
    DOMAIN v = {"num", "den"}

\* The row of the scenario table with marks 20, 45, 20 and all its subject
\* columns.
ScenarioCall ==
    /\ df_columns = ScenarioColumns /\ df_rows = ScenarioRows
    /\ args = <<1, <<MATHS_MSE, MATHS_ESE, DBMS_PRACTICAL>>>>

\* C15 as stated: the result is 100 times the sum of the row's numbers over the
\* listed columns, divided by the sum of the inferred maximum of each listed
\* column, a missing or non-numeric cell counting as zero marks.
C15_OverMaxOfEachListedColumn ==
    op = "_row_percentage" =>
        LET row == df_rows[args[1]]
            listed == args[2]
        IN  MaxSumOfEach(listed) > 0 =>
                /\ IsQuotient(ret)
                /\ ret.num * MaxSumOfEach(listed) = 100 * ObtainedSum(row, listed) * ret.den

\* C15 as amended: the divisor is the sum of the inferred maximum of each
\* listed column under which the row holds a number; a missing or non-numeric
\* cell adds nothing to either sum.  Marks 20, 45, 20 against 25 + 60 + 25 give
\* 85 / 110 * 100, which is 77.27 to two decimals.
C15_OverMaxOfNumericColumns ==
    op = "_row_percentage" =>
        LET row == df_rows[args[1]]
            listed == args[2]
            max_sum == MaxSumOfEach(NumberColumns(row, listed))
        IN  /\ max_sum > 0 =>
                /\ IsQuotient(ret)
                /\ ret.num * max_sum = 100 * ObtainedSum(row, listed) * ret.den
            /\ ScenarioCall =>
                /\ ret.num * 110 = 100 * 85 * ret.den
                /\ 7727 * ret.den <= ret.num * 100
                /\ ret.num * 100 < 7728 * ret.den

C15_Witness ==
    /\ op = "_row_percentage"
    /\ df_columns = <<MATHS_MSE, MATHS_ESE>>
    /\ df_rows[args[1]] = <<Float(20), np_nan>>
    /\ args[2] = <<MATHS_MSE, MATHS_ESE>>
    /\ ret = Quotient(2000, 25)

\* C16: _row_percentage returns nan, neither 0 nor an exception, whenever the
\* summed maximum is zero: for no listed column, for listed columns the row
\* does not have, and for a row holding no number under any listed column.
C16_NanWhenNoMaximum ==
    op = "_row_percentage" =>
        LET row == df_rows[args[1]]
            listed == args[2]
        IN  /\ MaxSumOfEach(NumberColumns(row, listed)) = 0 => ret = np_nan
            /\ listed = <<>> => ret = np_nan
            /\ (\A j \in DOMAIN listed : listed[j] \notin Range(df_columns)) => ret = np_nan
            /\ (\A j \in DOMAIN listed : ~IsNumber(CellUnder(row, listed[j]))) => ret = np_nan

C16_Witness ==
    /\ op = "_row_percentage"
    /\ df_columns = <<MATHS_MSE, MATHS_ESE>>
    /\ df_rows[args[1]] = <<Str(<<"A", "B">>), np_nan>>
    /\ args[2] = <<MATHS_MSE, MATHS_ESE>>
    /\ ret = np_nan

\* C17: the result of _row_percentage is nan or a number from 0 to 100.
C17_PercentageInRange ==
    op = "_row_percentage" =>
        \/ ret = np_nan
        \/ /\ IsQuotient(ret)
           /\ 0 <= ret.num
           /\ ret.num <= 100 * ret.den

IsSummary(v) ==
    DOMAIN v = {"total_marks", "average_marks", "max_marks", "min_marks", "std_marks"}

\* C18: get_subject_marks_summary returns None exactly when get_subject_marks
\* does for the same table and subject, and otherwise a summary of exactly the
\* totals get_subject_marks returns.
C18_SummaryOfTheTotals ==
    op = "get_subject_marks_summary" =>
        /\ marks_summary = ReturnNone <=> ret = ReturnNone
        /\ ret # ReturnNone =>
              /\ IsSummary(marks_summary)
              /\ marks_summary.total_marks = ret.list

RECURSIVE SumOf(_)
SumOf(l) ==
    IF l = <<>> THEN 0 ELSE l[1].float + SumOf(Tail(l))

RECURSIVE SumOfSquares(_)
SumOfSquares(l) ==
    IF l = <<>> THEN 0 ELSE l[1].float * l[1].float + SumOfSquares(Tail(l))

\* The summary's figures for the totals l, all numbers: the average is the sum
\* over the count, the maximum and the minimum are entries bounding the others,
\* and the square of the deviation is the population variance,
\* (n * sum of squares - square of the sum) / n^2.
SummaryFigures(summary, l) ==
    LET n == Len(l)
    IN  /\ summary.average_marks.num * n = SumOf(l) * summary.average_marks.den
        /\ \E i \in DOMAIN l : summary.max_marks = l[i]
        /\ \A i \in DOMAIN l : l[i].float <= summary.max_marks.float
        /\ \E i \in DOMAIN l : summary.min_marks = l[i]
        /\ \A i \in DOMAIN l : summary.min_marks.float <= l[i].float
        /\ summary.std_marks.sqrt.num * n * n
              = (n * SumOfSquares(l) - SumOf(l) * SumOf(l)) * summary.std_marks.sqrt.den

\* The summary of totals of which one is nan: every figure is nan.
SummaryOfNan(summary) ==
    /\ summary.average_marks = np_nan
    /\ summary.max_marks = np_nan
    /\ summary.min_marks = np_nan
    /\ summary.std_marks = np_nan

\* The call whose totals are [70, 40, 85].
TotalsCall ==
    /\ df_columns = TotalsColumns /\ df_rows = TotalsRows
    /\ args = <<MATHS_SUBJECT_ARG>>

\* The average is 65.0, the maximum 85 and the minimum 40.
TotalsFigures(summary) ==
    /\ summary.average_marks.num = 65 * summary.average_marks.den
    /\ summary.max_marks = Float(85)
    /\ summary.min_marks = Float(40)

\* C19 as stated: for totals that are not empty the summary holds their
\* average, maximum, minimum and population standard deviation, and for
\* [70, 40, 85] the deviation is 18.3 to one decimal (from 18.25 up to 18.35).
C19_PopulationStatistics183 ==
    (op = "get_subject_marks_summary" /\ IsSummary(marks_summary)) =>
        /\ IF \E i \in DOMAIN ret.list : ret.list[i] = np_nan
           THEN SummaryOfNan(marks_summary)
           ELSE SummaryFigures(marks_summary, ret.list)
        /\ TotalsCall =>
              /\ TotalsFigures(marks_summary)
              /\ 1825 * 1825 * marks_summary.std_marks.sqrt.den
                    <= 10000 * marks_summary.std_marks.sqrt.num
              /\ 10000 * marks_summary.std_marks.sqrt.num
                    < 1835 * 1835 * marks_summary.std_marks.sqrt.den

\* C19 as amended: the same, the deviation for [70, 40, 85] being the square
\* root of 350, 18.71 to two decimals (from 18.705 up to 18.715).
C19_PopulationStatistics ==
    (op = "get_subject_marks_summary" /\ IsSummary(marks_summary)) =>
        /\ IF \E i \in DOMAIN ret.list : ret.list[i] = np_nan
           THEN SummaryOfNan(marks_summary)
           ELSE SummaryFigures(marks_summary, ret.list)
        /\ TotalsCall =>
              /\ TotalsFigures(marks_summary)
              /\ 3741 * 3741 * marks_summary.std_marks.sqrt.den
                    <= 40000 * marks_summary.std_marks.sqrt.num
              /\ 40000 * marks_summary.std_marks.sqrt.num
                    < 3743 * 3743 * marks_summary.std_marks.sqrt.den

C19_Witness ==
    /\ op = "get_subject_marks_summary"
    /\ TotalsCall
    /\ ret = List(<<Float(70), Float(40), Float(85)>>)
    /\ marks_summary.average_marks = Quotient(195, 3)
    /\ marks_summary.std_marks = [sqrt |-> Quotient(9450, 27)]

\* C20: get_subject_list, get_subject_exam_types, get_subject_marks,
\* get_subject_marks_summary and _row_percentage leave the table they are given
\* as it was: no column and no cell is added, removed, renamed or rewritten.
C20_TableLeftAsGiven ==
    [][op' \in {"get_subject_list", "get_subject_exam_types", "get_subject_marks",
                "get_subject_marks_summary", "_row_percentage"}
          => (df_columns' = df_columns /\ df_rows' = df_rows)]_vars

C20_Witness ==
    /\ op = "get_subject_marks_summary"
    /\ df_columns = <<MATHS_MSE, MATHS_ESE>>
    /\ df_rows = << <<Str(<<"A", "B">>), np_nan>>, <<Float(20), Float(30)>> >>
    /\ ret = List(<<Float(0), Float(50)>>)

(*************************************************************************)
(* The session: one step per run of the script (src/app.py).             *)
(*************************************************************************)
Pages ==
    {"Upload", "Dashboard", "Students", "Subjects", "Insights", "Reports"}

AnalysisPages ==
    Pages \ {"Upload"}

Themes ==
    {"Default", "Dark Mode"}

\* A workbook with students, one without any, one without identity columns.
Files ==
    { [name |-> "marks.xlsx", identity_columns |-> TRUE, rows |-> 2],
      [name |-> "empty.xlsx", identity_columns |-> TRUE, rows |-> 0],
      [name |-> "notes.xlsx", identity_columns |-> FALSE, rows |-> 2] }

\* The processing calls followed in one session.
MaxCalls == 3

engine_state ==
    <<op, args, ret, df_columns, subjects, prev_subjects, since, between, exam_types,
      df_rows, marks_summary>>

InitSession ==
    /\ op = "init" /\ args = <<>> /\ ret = None
    /\ df_columns = <<>> /\ df_rows = <<>>
    /\ subjects = NotCalled /\ prev_subjects = NotCalled
    /\ since = {} /\ between = {}
    /\ exam_types = NotCalled
    /\ marks_summary = NotCalled
    /\ SessionStarted

\* The interaction sets the widgets and the script runs once.
Run(event, page, theme, uploaded_file, clicked) ==
    LET call == calls.made + 1
        run == script(session_state, page, uploaded_file, clicked, call)
    IN  /\ run.page.processed => calls.made < MaxCalls
        /\ session_state' = run.page.session_state
        /\ widgets' = [page |-> page, theme |-> theme,
                       uploaded_file |-> uploaded_file, event |-> event]
        /\ screen' = run
        /\ calls' = IF run.page.processed
                    THEN [made |-> call,
                          succeeded |-> IF "success" \in run.page.shown
                                        THEN call ELSE calls.succeeded]
                    ELSE calls
        /\ UNCHANGED engine_state

\* Lines 207-210: the uploader is not rendered on another page and loses
\* its file.
SelectPage ==
    \E p \in Pages \ {widgets.page} :
        /\ ~screen.rerun
        /\ Run("select page", p, widgets.theme, NoFile, FALSE)

\* Line 215.
ChooseTheme ==
    \E t \in Themes \ {widgets.theme} :
        /\ ~screen.rerun
        /\ Run("choose theme", widgets.page, t, widgets.uploaded_file, FALSE)

\* Lines 279-283: a file is handed to the uploader.
UploadFile ==
    \E f \in Files :
        /\ ~screen.rerun
        /\ widgets.page = "Upload"
        /\ Run("upload", widgets.page, widgets.theme, f, FALSE)

\* Lines 279-283: the file is taken out of the uploader.
RemoveFile ==
    /\ ~screen.rerun
    /\ widgets.page = "Upload"
    /\ widgets.uploaded_file # NoFile
    /\ Run("remove file", widgets.page, widgets.theme, NoFile, FALSE)

\* Line 253: the button can be clicked where the latest run rendered it.
ClickRefreshData ==
    /\ ~screen.rerun
    /\ screen.refresh_offered
    /\ Run("Refresh Data", widgets.page, widgets.theme, widgets.uploaded_file, TRUE)

\* Line 256: st.rerun() starts the next run.
Rerun ==
    /\ screen.rerun
    /\ Run("st.rerun", widgets.page, widgets.theme, widgets.uploaded_file, FALSE)

\* Lines 1000-1215: the report and export buttons of the Reports page.
GenerateReport ==
    /\ ~screen.rerun
    /\ widgets.page = "Reports"
    /\ "analysis" \in screen.page.shown
    /\ Run("generate report", widgets.page, widgets.theme, widgets.uploaded_file, FALSE)

NextSession ==
    \/ SelectPage
    \/ ChooseTheme
    \/ UploadFile
    \/ RemoveFile
    \/ ClickRefreshData
    \/ Rerun
    \/ GenerateReport

SpecSession ==
    InitSession /\ [][NextSession]_vars

(*************************************************************************)
(* The session state across uploads.                                     *)
(*************************************************************************)
HoldsNoTable ==
    /\ session_state.df_full = NoTable
    /\ session_state.df_suggestions = NoTable

\* C21: whatever uploads, failed uploads and other interactions went
\* before, the session holds either no table or the df_full and the
\* df_suggestions that one processing call returned, and that call is the
\* latest one to succeed; a successful upload leaves the pair of its own call.
C21_PairOfOneCall ==
    /\ \/ HoldsNoTable
       \/ /\ session_state.df_full.name = "df_full"
          /\ session_state.df_suggestions.name = "df_suggestions"
          /\ session_state.df_full.call = session_state.df_suggestions.call
          /\ session_state.df_full.call = calls.succeeded
    /\ "success" \in screen.page.shown =>
           /\ session_state.df_full.call = calls.made
           /\ session_state.df_suggestions.call = calls.made

\* A second upload succeeded over the table of an earlier one.
C21_Witness ==
    /\ widgets.event = "upload"
    /\ "success" \in screen.page.shown
    /\ session_state.df_full.call >= 2
    /\ session_state.df_suggestions.call = session_state.df_full.call

\* C22: the df_full and df_suggestions held for the pages change only in a
\* run started by handing a table to the uploader, and no other run calls
\* process_excel_file: selecting a page, choosing a theme, Refresh Data and
\* generating a report leave both as they were.
C22_ChangedOnlyBySubmitting ==
    [][widgets'.event # "upload" =>
          /\ session_state' = session_state
          /\ calls'.made = calls.made]_vars

\* C23: a run in which process_excel_file raises shows the error and
\* nothing else, stores no table, and leaves df_full and df_suggestions of
\* the session as they were before the attempt.
C23_FailedUploadKeepsState ==
    [][(/\ screen'.page.processed
        /\ process_excel_file(widgets'.uploaded_file, calls'.made).raises)
       => /\ screen'.page.shown = {"error"}
          /\ session_state' = session_state
          /\ calls'.succeeded = calls.succeeded]_vars

\* A workbook without identity columns was uploaded over a stored table.
C23_Witness ==
    /\ widgets.event = "upload"
    /\ ~widgets.uploaded_file.identity_columns
    /\ screen.page.shown = {"error"}
    /\ session_state.df_full # NoTable
    /\ session_state.df_full.call = calls.succeeded
    /\ calls.made > calls.succeeded

(*************************************************************************)
(* get_subject_list and get_subject_marks on the same table.             *)
(*************************************************************************)
\* The subjects get_subject_list derives from a column whose marker is
\* MSE or ESE.
WrittenExamSubjects(columns) ==
    UNION { classify(columns[k]).adds :
              k \in {j \in DOMAIN columns :
                        /\ columns[j] \notin exclude_cols
                        /\ classify(columns[j]).assessment \in {MSE, ESE}} }

\* C24: for a subject that get_subject_list returns for the table and
\* derived from an MSE or ESE column, get_subject_marks on the same table
\* does not return None; this covers headers written with underscores, such
\* as "DATA_STRUCTURES_MSE".
C24_ListedSubjectHasMarks ==
    (/\ op = "get_subject_marks"
     /\ args[1] \in ListedSubjects(df_columns)
     /\ args[1] \in WrittenExamSubjects(df_columns))
    => ret # ReturnNone

\* C25: for a subject that get_subject_list returns for the table, every
\* column get_subject_marks sums is a column that classifies to that
\* subject, so each total is the sum of the marks in the subject's own
\* columns; the column "COSMOS ESE" adds nothing to the totals of "Os".
C25_OwnColumnsOnly ==
    (/\ op = "get_subject_marks"
     /\ args[1] \in ListedSubjects(df_columns)
     /\ IsList(ret))
    => LET Own == {k \in DOMAIN df_columns : SubjectOf(df_columns[k]) = {args[1]}}
       IN  /\ \A k \in WrittenExamColumns(args[1]) : k \in Own
           /\ \A i \in DOMAIN df_rows :
                 AllNumbers(df_rows[i], WrittenExamColumns(args[1])) =>
                     ret.list[i] = Float(SumCells(df_rows[i],
                                                  Own \cap WrittenExamColumns(args[1])))

\* C26: get_subject_marks_summary raises for no table: whatever the columns
\* and however many rows, zero included, it returns None or a summary record.
C26_SummaryNeverRaises ==
    op = "get_subject_marks_summary" =>
        /\ marks_summary # ValueError
        /\ marks_summary = ReturnNone \/ IsSummary(marks_summary)

\* C27: in every state of the session df_full is None exactly when
\* df_suggestions is None, so a page that found df_full and went on to its
\* analysis read a df_suggestions that is a table.
C27_BothOrNeither ==
    /\ session_state.df_full = NoTable <=> session_state.df_suggestions = NoTable
    /\ "analysis" \in screen.page.shown =>
           /\ screen.page.df_full # NoTable
           /\ screen.page.df_suggestions # NoTable

\* The Dashboard read the pair of an earlier upload after a later one failed.
C27_Witness ==
    /\ widgets.page = "Dashboard"
    /\ screen.page.shown = {"analysis"}
    /\ calls.made > calls.succeeded
    /\ screen.page.df_suggestions = session_state.df_suggestions
    /\ session_state.df_suggestions.call = calls.succeeded

\* C28: while the session holds no table, an analysis page (Dashboard,
\* Students, Subjects, Insights, Reports) shows the please-upload warning and
\* nothing else, neither it nor the sidebar snapshot works on a table, and
\* the Refresh Data button is rendered only when a table is held.
C28_NothingWithoutATable ==
    ~screen.rerun =>
        /\ (widgets.page \in AnalysisPages /\ session_state.df_full = NoTable) =>
               /\ screen.page.shown = {"warning"}
               /\ screen.page.df_full = NoTable
               /\ screen.page.df_suggestions = NoTable
               /\ screen.snapshot = NoTable
        /\ screen.refresh_offered => session_state.df_full # NoTable

\* An analysis page in the run that follows a click on Refresh Data.
C28_Witness ==
    /\ widgets.event = "st.rerun"
    /\ widgets.page \in AnalysisPages
    /\ calls.succeeded >= 1
    /\ session_state.df_full = NoTable
    /\ screen.page.shown = {"warning"}
    /\ ~screen.refresh_offered

(*************************************************************************)
(* _is_practical_col and get_subject_exam_types on the same header.      *)
(*************************************************************************)
PROGRAMMING_TW == <<"P", "R", "O", "G", "R", "A", "M", "M", "I", "N", "G", " ", "T", "W">>
DBMS_UNDERSCORE_PR == <<"D", "B", "M", "S", "_", "P", "R">>

\* C29: for a header that contains none of ESE, ISE, MSE and the subject it
\* classifies to, get_subject_exam_types gives the type PRACTICAL exactly
\* when _is_practical_col returns True; the TW column "PROGRAMMING TW" is
\* typed TW and is not practical, the column "DBMS_PR" is typed PRACTICAL
\* and is practical.
C29_PracticalClassifiersAgree ==
    (/\ op = "_is_practical_col"
     /\ args[1] \in Headers
     /\ ~contains(upper(args[1]), ESE)
     /\ ~contains(upper(args[1]), ISE)
     /\ ~contains(upper(args[1]), MSE))
    => /\ \A s \in classify(args[1]).adds :
             ret <=> get_subject_exam_types(<<args[1]>>, s) = {<<PRACTICAL>>}
       /\ args[1] = PROGRAMMING_TW =>
             ~ret /\ exam_type_of(upper(args[1])) = {TW}
       /\ args[1] = DBMS_UNDERSCORE_PR =>
             ret /\ exam_type_of(upper(args[1])) = {PRACTICAL}

=============================================================================
